---- MODULE Spec2Model ----
(***************************************************************************)
(* Model of the voting server of internal/server/server.go                 *)
(* (src/unnamed/part_001): the shared state guarded by Server.mu, the      *)
(* per-connection goroutine handleClient, processVote, the two broadcast   *)
(* strategies (broadcastLocked under the mutex, broadcastWorker fed by     *)
(* broadcastChan), StartVoting, the expiry timer and endVoting.            *)
(*                                                                         *)
(* A goroutine is a process with a program counter.  conn.Write is a step  *)
(* that completes at once on a responsive sink, returns an error at once   *)
(* on a sink whose peer has gone, and is not enabled while the peer's      *)
(* receive window is exhausted ("stalled").                                *)
(***************************************************************************)
EXTENDS Integers, Sequences, FiniteSets, TLC

(***************************************************************************)
(* Bounds of the model.                                                    *)
(***************************************************************************)
MaxVotes == 2        \* VOTE lines read over all connections
MaxStalls == 1       \* times a peer stops draining its receive window
ChanCap == 2         \* largest capacity of broadcastChan in the model

Conns == {"c1", "c2", "c3"}         \* TCP connections
Ids == {"x1", "x2", "x3"}            \* identities a client may send
Options == {"A", "B", "C"}           \* opcoes of cmd/server/main.go
Inputs == {"A", "B", "D"}            \* what follows "VOTE " in the model

NoConn == "nil"
NoVote == "-"
NoHolder == "unlocked"
Worker == "worker"
Starter == "starter"
Ender == "ender"
Goroutines == Conns \cup {Worker, Starter, Ender}

VotingNotStarted == "NOT_STARTED"
VotingActive == "ACTIVE"
VotingEnded == "ENDED"

\* Lines written to a client, by their leading tag.
ErrNotStarted == "ERRO: Votacao nao iniciada"
ErrEnded == "ERRO: Votacao encerrada"
ErrExpired == "ERRO: Tempo limite expirado"
ErrDuplicate == "ERRO: Voto duplicado"
ErrInvalid == "ERRO: Opcao invalida"
ErrNameInUse == "ERRO: NOME em uso"
Ok == "OK: Voto registrado"
Update == "UPDATE"
Started == "VOTACAO_INICIADA"
Finished == "VOTACAO_ENCERRADA"
NoResult == "none"
Rejections == {ErrNotStarted, ErrEnded, ErrExpired, ErrDuplicate, ErrInvalid}

\* The i-th connection, canonically, introduces at most the i-th identity:
\* connections are interchangeable, so every assignment of identities to
\* connections is one of these up to renaming.
IdChoices(c) ==
    IF c = "c1" THEN {"x1"} ELSE IF c = "c2" THEN {"x1", "x2"} ELSE Ids

VARIABLES
    useAsyncBroadcast,  \* Server.useAsyncBroadcast
    capacity,           \* cap(s.broadcastChan); 0 without a channel
    mu,                 \* holder of Server.mu, or NoHolder
    clients,            \* Server.clients: identity -> connection
    votes,              \* Server.votes: identity -> option
    voteCounts,         \* Server.voteCounts: option -> count
    votingState,        \* Server.votingState
    broadcastChan,      \* Server.broadcastChan: queued snapshots
    expired,            \* time.Now().After(s.votingDeadline)
    timerArmed,         \* the time.AfterFunc of StartVoting is pending
    endWaiting,         \* endVoting goroutines blocked in s.mu.Lock()
    epc,                \* position of the endVoting call that holds mu
    spc,                \* position of the StartVoting call
    finalResults,       \* the results endVoting has announced, in order
    pc,                 \* position of each handleClient goroutine
    id,                 \* handleClient's local id
    option,             \* processVote's argument
    result,             \* answer of the connection's latest request
    count,              \* voteCounts[option] as read by the increment
    wpc,                \* position of broadcastWorker
    update,             \* broadcastWorker's local update
    todo,               \* per goroutine: sinks its range loop has yet to write
    cur,                \* per goroutine: sink of the conn.Write it is blocked in
    err,                \* the running broadcast loop's latest Write failed
    sink,               \* per connection: "ok", "stalled" or "gone"
    nVotes,             \* VOTE lines read so far
    nStalls             \* stalls so far

config == <<useAsyncBroadcast, capacity>>
ledger == <<votes, voteCounts>>
shared == <<clients, votes, voteCounts, votingState, broadcastChan>>
roundv == <<expired, timerArmed, endWaiting, epc, spc, finalResults>>
connv == <<pc, id, option, result, count>>
workv == <<wpc, update>>
writev == <<cur, err>>
loopv == <<todo, cur, err>>
netv == <<sink>>
budget == <<nVotes, nStalls>>
vars == <<config, mu, shared, roundv, connv, workv, loopv, netv,
          budget>>

\* The connections that are made: two where peers may stall and go, all of
\* them where every peer keeps reading.
Dialled == {"c1", "c2"}

\* NewServer: empty maps, a zero count per option, NOT_STARTED; in async mode
\* a buffered channel, in the model of capacity 1 (it fills) or ChanCap.
\* The connections in live have been accepted, the others are never made.
InitWith(live) ==
    /\ useAsyncBroadcast \in BOOLEAN
    /\ capacity \in (IF useAsyncBroadcast THEN {1, ChanCap} ELSE {0})
    /\ mu = NoHolder
    /\ clients = [i \in Ids |-> NoConn]
    /\ votes = [i \in Ids |-> NoVote]
    /\ voteCounts = [o \in Options |-> 0]
    /\ votingState = VotingNotStarted
    /\ broadcastChan = <<>>
    /\ expired = FALSE
    /\ timerArmed = FALSE
    /\ endWaiting = 0
    /\ epc = "idle"
    /\ spc = "idle"
    /\ finalResults = <<>>
    /\ pc = [c \in Conns |-> IF c \in live THEN "accepted" ELSE "closed"]
    /\ id = [c \in Conns |-> "x1"]
    /\ option = [c \in Conns |-> NoVote]
    /\ result = [c \in Conns |-> NoResult]
    /\ count = [c \in Conns |-> 0]
    /\ wpc = "receive"
    /\ update = [o \in Options |-> 0]
    /\ todo = [g \in Goroutines |-> {}]
    /\ cur = [g \in Goroutines |-> NoConn]
    /\ err = FALSE
    /\ sink = [c \in Conns |-> "ok"]
    /\ nVotes = 0
    /\ nStalls = 0

Init == InitWith(Dialled)

(***************************************************************************)
(* The mutex and the sinks.                                                *)
(*                                                                         *)
(* A step of a goroutine runs to its next blocking operation: a Lock of a  *)
(* held mutex, a Write to a stalled sink, a send on a full channel, a      *)
(* read.  The two halves of voteCounts[option]++ stay separate steps, and  *)
(* so does every Write to the sink of another connection.                  *)
(***************************************************************************)
\* A Lock() that never waits: the mutex excludes nobody.
LockFreeRacy == TRUE

\* s.mu.Lock() returns only when no goroutine holds the mutex.
LockFree == mu = NoHolder

\* The connections in s.clients.
Registered == {clients[i] : i \in {j \in Ids : clients[j] # NoConn}}

\* `_, votou := s.votes[id]`
HasVoted(i) == votes[i] # NoVote

\* A broadcast loop without its filter.
VotouAlways(i) == TRUE

\* The filter of the per-vote broadcast loops: `if votou`.
Votou(i) == HasVoted(i)

\* The connections a per-vote broadcast writes to.
Eligible == {clients[i] : i \in {j \in Ids : clients[j] # NoConn /\ Votou(j)}}

\* A loop that gives up at the first Write that fails.
LoopStepAbort(g) ==
    /\ cur[g] = NoConn
    /\ \E c \in todo[g] :
         /\ todo' = [todo EXCEPT ![g] = IF sink[c] = "gone" THEN {} ELSE @ \ {c}]
         /\ cur' = IF sink[c] = "stalled" THEN [cur EXCEPT ![g] = c] ELSE cur
         /\ err' = (sink[c] = "gone")
    /\ sink' = sink

\* One iteration of `for _, conn := range ... { conn.Write(msg) }` by g:
\* the next sink is taken in any order; the Write returns at once (with an
\* error if the peer has gone) unless the sink is stalled, and then g stays
\* inside conn.Write.
LoopStep(g) ==
    /\ cur[g] = NoConn
    /\ \E c \in todo[g] :
         /\ todo' = [todo EXCEPT ![g] = @ \ {c}]
         /\ cur' = IF sink[c] = "stalled" THEN [cur EXCEPT ![g] = c] ELSE cur
         /\ err' = (sink[c] = "gone")
    /\ sink' = sink

\* The conn.Write g is blocked in returns once the sink is no longer stalled.
LoopResume(g) ==
    /\ cur[g] # NoConn
    /\ sink[cur[g]] # "stalled"
    /\ cur' = [cur EXCEPT ![g] = NoConn]
    /\ err' = (sink[cur[g]] = "gone")
    /\ UNCHANGED <<todo, sink>>

LoopDone(g) == todo[g] = {} /\ cur[g] = NoConn

(***************************************************************************)
(* handleClient: registration and cleanup.                                 *)
(***************************************************************************)
\* A registration that does not look for the name in s.clients.
HandleRegisterNoCheck(c, i) ==
    /\ pc[c] = "accepted"
    /\ LockFree
    /\ id' = [id EXCEPT ![c] = i]
    /\ pc' = [pc EXCEPT ![c] = "read"]
    /\ clients' = [clients EXCEPT ![i] = c]
    /\ UNCHANGED <<result, sink>>
    /\ UNCHANGED <<config, mu, votes, voteCounts, votingState,
                   broadcastChan, roundv, option, count, workv, loopv,
                   budget>>

\* A registration whose refusal runs the cleanup of the handler as well.
HandleRegisterRefusedCleans(c, i) ==
    /\ pc[c] = "accepted"
    /\ LockFree
    /\ id' = [id EXCEPT ![c] = i]
    /\ IF clients[i] # NoConn
         THEN /\ pc' = [pc EXCEPT ![c] = "cleanup"]
              /\ result' = [result EXCEPT ![c] = ErrNameInUse]
              /\ sink' = [sink EXCEPT ![c] = "gone"]
              /\ clients' = clients
         ELSE /\ pc' = [pc EXCEPT ![c] = "read"]
              /\ clients' = [clients EXCEPT ![i] = c]
              /\ UNCHANGED <<result, sink>>
    /\ UNCHANGED <<config, mu, votes, voteCounts, votingState,
                   broadcastChan, roundv, option, count, workv, loopv,
                   budget>>

\* The first line is read and the critical section of the registration runs:
\* a name in use is refused with "ERRO: NOME em uso" and the connection is
\* closed, otherwise s.clients[id] = conn and the handler reaches its read
\* loop.
HandleRegister(c, i) ==
    /\ pc[c] = "accepted"
    /\ LockFree
    /\ id' = [id EXCEPT ![c] = i]
    /\ IF clients[i] # NoConn
         THEN /\ pc' = [pc EXCEPT ![c] = "closed"]
              /\ result' = [result EXCEPT ![c] = ErrNameInUse]
              /\ sink' = [sink EXCEPT ![c] = "gone"]
              /\ clients' = clients
         ELSE /\ pc' = [pc EXCEPT ![c] = "read"]
              /\ clients' = [clients EXCEPT ![i] = c]
              /\ UNCHANGED <<result, sink>>
    /\ UNCHANGED <<config, mu, votes, voteCounts, votingState,
                   broadcastChan, roundv, option, count, workv, loopv,
                   budget>>

\* Where a handler is after processVote returns: back in ReadString, or,
\* the peer having gone, at the s.mu.Lock() of the cleanup.
AfterVote(c) == IF sink[c] = "gone" THEN "cleanup" ELSE "read"

\* A removal that empties the whole registry.
DeleteAll(m, k) == [j \in DOMAIN m |-> NoConn]

\* delete(s.clients, id): the entry is removed; nothing happens when the key
\* is absent.
Delete(m, k) == [m EXCEPT ![k] = NoConn]

\* A cleanup that removes the client without taking the mutex.
CleanupUnlocked(c) ==
    /\ pc[c] = "cleanup"
    /\ clients' = Delete(clients, id[c])
    /\ pc' = [pc EXCEPT ![c] = "closed"]
    /\ UNCHANGED <<config, mu, votes, voteCounts, votingState,
                   broadcastChan, roundv, id, option, result, count, workv,
                   loopv, netv, budget>>

\* A cleanup that forgets the vote of the client that leaves.
CleanupForgetVote(c) ==
    /\ pc[c] = "cleanup"
    /\ LockFree
    /\ clients' = Delete(clients, id[c])
    /\ votes' = [votes EXCEPT ![id[c]] = NoVote]
    /\ pc' = [pc EXCEPT ![c] = "closed"]
    /\ UNCHANGED <<config, mu, voteCounts, votingState,
                   broadcastChan, roundv, id, option, result, count, workv,
                   loopv, netv, budget>>

\* delete(s.clients, id) under the mutex, then the deferred conn.Close().
Cleanup(c) ==
    /\ pc[c] = "cleanup"
    /\ LockFree
    /\ clients' = Delete(clients, id[c])
    /\ pc' = [pc EXCEPT ![c] = "closed"]
    /\ UNCHANGED <<config, mu, votes, voteCounts, votingState,
                   broadcastChan, roundv, id, option, result, count, workv,
                   loopv, netv, budget>>

(***************************************************************************)
(* The peers.                                                              *)
(***************************************************************************)
Connected(c) == pc[c] \notin {"accepted", "closed"}

\* The peer stops reading: its receive window fills and writes to it block.
Stall(c) ==
    /\ Connected(c)
    /\ sink[c] = "ok"
    /\ nStalls < MaxStalls
    /\ nStalls' = nStalls + 1
    /\ sink' = [sink EXCEPT ![c] = "stalled"]
    /\ UNCHANGED <<config, mu, shared, roundv, connv, workv, loopv,
                   nVotes>>

\* The peer reads again.
Drain(c) ==
    /\ sink[c] = "stalled"
    /\ sink' = [sink EXCEPT ![c] = "ok"]
    /\ UNCHANGED <<config, mu, shared, roundv, connv, workv, loopv,
                   budget>>

\* The peer closes the connection: writes to it fail from now on, and a
\* handler in ReadString gets the error and goes on to the cleanup.
PeerClose(c) ==
    /\ Connected(c)
    /\ sink[c] # "gone"
    /\ sink' = [sink EXCEPT ![c] = "gone"]
    /\ IF pc[c] # "read"
         THEN UNCHANGED <<pc, clients>>
         ELSE IF LockFree
         THEN /\ clients' = Delete(clients, id[c])
              /\ pc' = [pc EXCEPT ![c] = "closed"]
         ELSE /\ pc' = [pc EXCEPT ![c] = "cleanup"]
              /\ clients' = clients
    /\ UNCHANGED <<config, mu, votes, voteCounts, votingState,
                   broadcastChan, roundv, id, option, result, count, workv,
                   loopv, budget>>

(***************************************************************************)
(* processVote.                                                            *)
(***************************************************************************)
\* Variants of the validations with one of them left out or out of order.
ValidateNoDuplicateCheck(state, late, voted, o) ==
    IF state = VotingNotStarted THEN ErrNotStarted
    ELSE IF state = VotingEnded THEN ErrEnded
    ELSE IF late THEN ErrExpired
    ELSE IF o \notin Options THEN ErrInvalid
    ELSE Ok

ValidateNoStartCheck(state, late, voted, o) ==
    IF state = VotingEnded THEN ErrEnded
    ELSE IF late THEN ErrExpired
    ELSE IF voted THEN ErrDuplicate
    ELSE IF o \notin Options THEN ErrInvalid
    ELSE Ok

ValidateNoDeadline(state, late, voted, o) ==
    IF state = VotingNotStarted THEN ErrNotStarted
    ELSE IF state = VotingEnded THEN ErrEnded
    ELSE IF voted THEN ErrDuplicate
    ELSE IF o \notin Options THEN ErrInvalid
    ELSE Ok

ValidateOptionFirst(state, late, voted, o) ==
    IF state = VotingNotStarted THEN ErrNotStarted
    ELSE IF state = VotingEnded THEN ErrEnded
    ELSE IF late THEN ErrExpired
    ELSE IF o \notin Options THEN ErrInvalid
    ELSE IF voted THEN ErrDuplicate
    ELSE Ok

ValidateAnyOption(state, late, voted, o) ==
    IF state = VotingNotStarted THEN ErrNotStarted
    ELSE IF state = VotingEnded THEN ErrEnded
    ELSE IF late THEN ErrExpired
    ELSE IF voted THEN ErrDuplicate
    ELSE Ok

ValidateDuplicateFirst(state, late, voted, o) ==
    IF voted THEN ErrDuplicate
    ELSE IF state = VotingNotStarted THEN ErrNotStarted
    ELSE IF state = VotingEnded THEN ErrEnded
    ELSE IF late THEN ErrExpired
    ELSE IF o \notin Options THEN ErrInvalid
    ELSE Ok

\* The five validations, in the order of the code; Ok when all pass.
Validate(state, late, voted, o) ==
    IF state = VotingNotStarted THEN ErrNotStarted
    ELSE IF state = VotingEnded THEN ErrEnded
    ELSE IF late THEN ErrExpired
    ELSE IF voted THEN ErrDuplicate
    ELSE IF o \notin Options THEN ErrInvalid
    ELSE Ok

\* The snapshot processVote copies out of s.voteCounts, key by key.
Snapshot(tally) == [o \in DOMAIN tally |-> tally[o]]

\* m[k] of a Go map: the zero value for a key that is absent.
Get(m, k) == IF k \in DOMAIN m THEN m[k] ELSE 0

\* An assignment that leaves the map with the assigned key alone.
PutAlone(m, k, v) == [x \in {k} |-> v]

\* m[k] = v of a Go map: the key is added when absent.
Put(m, k, v) == [x \in DOMAIN m \cup {k} |-> IF x = k THEN v ELSE m[x]]

\* An expired path that spawns nothing.
SpawnEndNever(r) == endWaiting

\* `go s.endVoting()` on the expired path: one more goroutine in Lock().
SpawnEnd(r) == IF r = ErrExpired THEN endWaiting + 1 ELSE endWaiting

\* A processVote that unlocks before it calls broadcastLocked.
AfterReplyUnlocked(c, r, tally, eligible) ==
    /\ endWaiting' = SpawnEnd(r)
    /\ IF r \in Rejections
         THEN /\ mu' = NoHolder
              /\ pc' = [pc EXCEPT ![c] = AfterVote(c)]
              /\ option' = [option EXCEPT ![c] = NoVote]
              /\ UNCHANGED <<broadcastChan, todo>>
         ELSE IF useAsyncBroadcast
         THEN IF Len(broadcastChan) < capacity
                THEN /\ broadcastChan' = Append(broadcastChan, Snapshot(tally))
                     /\ mu' = NoHolder
                     /\ pc' = [pc EXCEPT ![c] = AfterVote(c)]
                     /\ option' = [option EXCEPT ![c] = NoVote]
                     /\ todo' = todo
                ELSE /\ pc' = [pc EXCEPT ![c] = "send"]
                     /\ mu' = c
                     /\ UNCHANGED <<broadcastChan, option, todo>>
         ELSE /\ pc' = [pc EXCEPT ![c] = "broadcast"]
              /\ todo' = [todo EXCEPT ![c] = eligible]
              /\ mu' = NoHolder
              /\ UNCHANGED <<broadcastChan, option>>

\* A hand-off that drops the snapshot when the channel is full.
AfterReplyDrop(c, r, tally, eligible) ==
    /\ endWaiting' = SpawnEnd(r)
    /\ IF r \in Rejections \/ useAsyncBroadcast
         THEN /\ broadcastChan' =
                   IF r \notin Rejections /\ Len(broadcastChan) < capacity
                     THEN Append(broadcastChan, Snapshot(tally))
                     ELSE broadcastChan
              /\ mu' = NoHolder
              /\ pc' = [pc EXCEPT ![c] = AfterVote(c)]
              /\ option' = [option EXCEPT ![c] = NoVote]
              /\ todo' = todo
         ELSE /\ pc' = [pc EXCEPT ![c] = "broadcast"]
              /\ todo' = [todo EXCEPT ![c] = eligible]
              /\ mu' = c
              /\ UNCHANGED <<broadcastChan, option>>

\* A processVote that goes on to the broadcast after a rejection as well.
AfterReplyAlways(c, r, tally, eligible) ==
    /\ endWaiting' = SpawnEnd(r)
    /\ IF useAsyncBroadcast
         THEN IF Len(broadcastChan) < capacity
                THEN /\ broadcastChan' = Append(broadcastChan, Snapshot(tally))
                     /\ mu' = NoHolder
                     /\ pc' = [pc EXCEPT ![c] = AfterVote(c)]
                     /\ option' = [option EXCEPT ![c] = NoVote]
                     /\ todo' = todo
                ELSE /\ pc' = [pc EXCEPT ![c] = "send"]
                     /\ mu' = c
                     /\ UNCHANGED <<broadcastChan, option, todo>>
         ELSE /\ pc' = [pc EXCEPT ![c] = "broadcast"]
              /\ todo' = [todo EXCEPT ![c] = eligible]
              /\ mu' = c
              /\ UNCHANGED <<broadcastChan, option>>

\* A broadcastLocked that leaves the voter itself out of its loop.
AfterReplyNotSelf(c, r, tally, eligible) ==
    /\ endWaiting' = SpawnEnd(r)
    /\ IF r \in Rejections
         THEN /\ mu' = NoHolder
              /\ pc' = [pc EXCEPT ![c] = AfterVote(c)]
              /\ option' = [option EXCEPT ![c] = NoVote]
              /\ UNCHANGED <<broadcastChan, todo>>
         ELSE IF useAsyncBroadcast
         THEN IF Len(broadcastChan) < capacity
                THEN /\ broadcastChan' = Append(broadcastChan, Snapshot(tally))
                     /\ mu' = NoHolder
                     /\ pc' = [pc EXCEPT ![c] = AfterVote(c)]
                     /\ option' = [option EXCEPT ![c] = NoVote]
                     /\ todo' = todo
                ELSE /\ pc' = [pc EXCEPT ![c] = "send"]
                     /\ mu' = c
                     /\ UNCHANGED <<broadcastChan, option, todo>>
         ELSE /\ pc' = [pc EXCEPT ![c] = "broadcast"]
              /\ todo' = [todo EXCEPT ![c] = eligible \ {c}]
              /\ mu' = c
              /\ UNCHANGED <<broadcastChan, option>>

\* What follows the conn.Write of the answer r.  A rejection returns and the
\* deferred Unlock runs.  An accepted vote sends a snapshot of the tally on
\* the channel (async), which blocks while the channel is full, or enters
\* broadcastLocked (sync).
AfterReply(c, r, tally, eligible) ==
    /\ endWaiting' = SpawnEnd(r)
    /\ IF r \in Rejections
         THEN /\ mu' = NoHolder
              /\ pc' = [pc EXCEPT ![c] = AfterVote(c)]
              /\ option' = [option EXCEPT ![c] = NoVote]
              /\ UNCHANGED <<broadcastChan, todo>>
         ELSE IF useAsyncBroadcast
         THEN IF Len(broadcastChan) < capacity
                THEN /\ broadcastChan' = Append(broadcastChan, Snapshot(tally))
                     /\ mu' = NoHolder
                     /\ pc' = [pc EXCEPT ![c] = AfterVote(c)]
                     /\ option' = [option EXCEPT ![c] = NoVote]
                     /\ todo' = todo
                ELSE /\ pc' = [pc EXCEPT ![c] = "send"]
                     /\ mu' = c
                     /\ UNCHANGED <<broadcastChan, option, todo>>
         ELSE /\ pc' = [pc EXCEPT ![c] = "broadcast"]
              /\ todo' = [todo EXCEPT ![c] = eligible]
              /\ mu' = c
              /\ UNCHANGED <<broadcastChan, option>>

\* conn.Write of the answer r on conn = s.clients[id], mutex held: the
\* goroutine stays in the Write while the sink is stalled.
Reply(c, r, tally, eligible) ==
    IF sink[clients[id[c]]] = "stalled"
      THEN /\ pc' = [pc EXCEPT ![c] = "reply"]
           /\ mu' = c
           /\ UNCHANGED <<endWaiting, option, broadcastChan, todo>>
      ELSE AfterReply(c, r, tally, eligible)

\* processVote(id, o) from s.mu.Lock() on: the validations; a rejected vote
\* is answered, a valid one is stored, s.votes[id] = option, and the
\* increment reads the count.
ProcessVote(c, o) ==
    LET r == Validate(votingState, expired, HasVoted(id[c]), o) IN
    /\ result' = [result EXCEPT ![c] = r]
    /\ IF r = Ok
         THEN /\ votes' = [votes EXCEPT ![id[c]] = o]
              /\ count' = [count EXCEPT ![c] = Get(voteCounts, o)]
              /\ pc' = [pc EXCEPT ![c] = "incr"]
              /\ option' = [option EXCEPT ![c] = o]
              /\ mu' = c
              /\ UNCHANGED <<endWaiting, broadcastChan, todo>>
         ELSE /\ UNCHANGED <<votes, count>>
              /\ Reply(c, r, voteCounts, Eligible)

\* reader.ReadString returns a line "VOTE <o>" and processVote is called; it
\* waits in s.mu.Lock() while the mutex is held.
ReadLine(c, o) ==
    /\ pc[c] = "read"
    /\ IF LockFree
         THEN ProcessVote(c, o)
         ELSE /\ pc' = [pc EXCEPT ![c] = "vote"]
              /\ option' = [option EXCEPT ![c] = o]
              /\ UNCHANGED <<mu, votes, result, count, endWaiting,
                             broadcastChan, todo>>
    /\ UNCHANGED <<config, clients, voteCounts, votingState,
                   expired, timerArmed, epc, spc, finalResults, id, workv, writev,
                   netv, nStalls>>

\* A VOTE line of the bounded number the model reads.
ReadVote(c, o) ==
    /\ nVotes < MaxVotes
    /\ nVotes' = nVotes + 1
    /\ ReadLine(c, o)

\* s.mu.Lock() returns in a processVote that was waiting for the mutex.
ProcessVoteEnter(c) ==
    /\ pc[c] = "vote"
    /\ LockFree
    /\ ProcessVote(c, option[c])
    /\ UNCHANGED <<config, clients, voteCounts, votingState,
                   expired, timerArmed, epc, spc, finalResults, id, workv, writev,
                   netv, budget>>

\* A processVote whose snapshot is the tally as it was before the increment.
ProcessVoteIncrStale(c) ==
    /\ pc[c] = "incr"
    /\ voteCounts' = Put(voteCounts, option[c], count[c] + 1)
    /\ count' = [count EXCEPT ![c] = 0]
    /\ Reply(c, Ok, voteCounts, Eligible)
    /\ UNCHANGED <<config, clients, votes, votingState, expired,
                   timerArmed, epc, spc, finalResults, id, result, workv, writev,
                   netv, budget>>

\* The write half of s.voteCounts[option]++, then the "OK" answer.
ProcessVoteIncr(c) ==
    /\ pc[c] = "incr"
    /\ voteCounts' = Put(voteCounts, option[c], count[c] + 1)
    /\ count' = [count EXCEPT ![c] = 0]
    /\ Reply(c, Ok, voteCounts', Eligible)
    /\ UNCHANGED <<config, clients, votes, votingState, expired,
                   timerArmed, epc, spc, finalResults, id, result, workv, writev,
                   netv, budget>>

\* The conn.Write of the answer returns: the sink is no longer stalled.
ProcessVoteReply(c) ==
    /\ pc[c] = "reply"
    /\ sink[clients[id[c]]] # "stalled"
    /\ AfterReply(c, result[c], voteCounts, Eligible)
    /\ UNCHANGED <<config, clients, votes, voteCounts, votingState,
                   expired, timerArmed, epc, spc, finalResults, id, result, count,
                   workv, writev, netv, budget>>

\* A send that, once the channel has room, returns without queueing.
ProcessVoteSendDrop(c) ==
    /\ pc[c] = "send"
    /\ Len(broadcastChan) < capacity
    /\ broadcastChan' = broadcastChan
    /\ mu' = NoHolder
    /\ pc' = [pc EXCEPT ![c] = AfterVote(c)]
    /\ option' = [option EXCEPT ![c] = NoVote]
    /\ UNCHANGED <<config, clients, votes, voteCounts, votingState,
                   roundv, id, result, count, workv, loopv, netv, budget>>

\* s.broadcastChan <- snapshot returns: the channel has room again.
ProcessVoteSend(c) ==
    /\ pc[c] = "send"
    /\ Len(broadcastChan) < capacity
    /\ broadcastChan' = Append(broadcastChan, Snapshot(voteCounts))
    /\ mu' = NoHolder
    /\ pc' = [pc EXCEPT ![c] = AfterVote(c)]
    /\ option' = [option EXCEPT ![c] = NoVote]
    /\ UNCHANGED <<config, clients, votes, voteCounts, votingState,
                   roundv, id, result, count, workv, loopv, netv, budget>>

\* broadcastLocked: the UPDATE loop run by processVote with the mutex held.
BroadcastLockedStep(c) ==
    /\ pc[c] = "broadcast"
    /\ LoopStep(c)
    /\ UNCHANGED <<config, mu, shared, roundv, connv, workv, budget>>

BroadcastLockedResume(c) ==
    /\ pc[c] = "broadcast"
    /\ LoopResume(c)
    /\ UNCHANGED <<config, mu, shared, roundv, connv, workv, budget>>

\* broadcastLocked returns and the deferred s.mu.Unlock() runs.
BroadcastLockedReturn(c) ==
    /\ pc[c] = "broadcast"
    /\ LoopDone(c)
    /\ mu' = NoHolder
    /\ pc' = [pc EXCEPT ![c] = AfterVote(c)]
    /\ option' = [option EXCEPT ![c] = NoVote]
    /\ err' = FALSE
    /\ UNCHANGED <<config, shared, roundv, id, result, count, workv,
                   todo, cur, netv, budget>>

(***************************************************************************)
(* broadcastWorker (async mode only).                                      *)
(***************************************************************************)
\* A worker that writes to every registered client, voter or not.
WorkerLockedAll ==
    /\ mu' = Worker
    /\ todo' = [todo EXCEPT ![Worker] = Registered]
    /\ wpc' = "write"

\* A worker that lists its sinks and lets the mutex go before it writes.
WorkerLockedReleased ==
    /\ mu' = NoHolder
    /\ todo' = [todo EXCEPT ![Worker] = Eligible]
    /\ wpc' = "write"

\* s.mu.Lock() returns in the worker: the range over s.clients starts.
WorkerLocked ==
    /\ mu' = Worker
    /\ todo' = [todo EXCEPT ![Worker] = Eligible]
    /\ wpc' = "write"

\* A worker that takes the newest snapshot of the channel, not the oldest.
WorkerReceiveLast ==
    /\ useAsyncBroadcast
    /\ wpc = "receive"
    /\ broadcastChan # <<>>
    /\ update' = broadcastChan[Len(broadcastChan)]
    /\ broadcastChan' = SubSeq(broadcastChan, 1, Len(broadcastChan) - 1)
    /\ IF LockFree
         THEN WorkerLocked
         ELSE wpc' = "lock" /\ UNCHANGED <<mu, todo>>
    /\ UNCHANGED <<config, clients, votes, voteCounts, votingState,
                   roundv, connv, writev, netv, budget>>

\* A worker whose update is the live s.voteCounts map, not a copy: what it
\* formats is the tally at the time it receives.
WorkerReceiveLive ==
    /\ useAsyncBroadcast
    /\ wpc = "receive"
    /\ broadcastChan # <<>>
    /\ update' = voteCounts
    /\ broadcastChan' = Tail(broadcastChan)
    /\ IF LockFree
         THEN WorkerLocked
         ELSE wpc' = "lock" /\ UNCHANGED <<mu, todo>>
    /\ UNCHANGED <<config, clients, votes, voteCounts, votingState,
                   roundv, connv, writev, netv, budget>>

\* A worker that starts its loop without taking the mutex.
WorkerReceiveBarging ==
    /\ useAsyncBroadcast
    /\ wpc = "receive"
    /\ broadcastChan # <<>>
    /\ update' = Head(broadcastChan)
    /\ broadcastChan' = Tail(broadcastChan)
    /\ todo' = [todo EXCEPT ![Worker] = Eligible]
    /\ wpc' = "write"
    /\ mu' = mu
    /\ UNCHANGED <<config, clients, votes, voteCounts, votingState,
                   roundv, connv, writev, netv, budget>>

\* `for update := range s.broadcastChan` receives a snapshot and the worker
\* goes on to s.mu.Lock().
WorkerReceive ==
    /\ useAsyncBroadcast
    /\ wpc = "receive"
    /\ broadcastChan # <<>>
    /\ update' = Head(broadcastChan)
    /\ broadcastChan' = Tail(broadcastChan)
    /\ IF LockFree
         THEN WorkerLocked
         ELSE wpc' = "lock" /\ UNCHANGED <<mu, todo>>
    /\ UNCHANGED <<config, clients, votes, voteCounts, votingState,
                   roundv, connv, writev, netv, budget>>

WorkerLock ==
    /\ wpc = "lock"
    /\ LockFree
    /\ WorkerLocked
    /\ UNCHANGED <<config, shared, roundv, connv, update, writev, netv,
                   budget>>

\* conn.Write(msgBytes) inside the range loop: the mutex is still held.
WorkerStep ==
    /\ wpc = "write"
    /\ LoopStep(Worker)
    /\ UNCHANGED <<config, mu, shared, roundv, connv, workv, budget>>

WorkerResume ==
    /\ wpc = "write"
    /\ LoopResume(Worker)
    /\ UNCHANGED <<config, mu, shared, roundv, connv, workv, budget>>

\* s.mu.Unlock() after the loop.
WorkerUnlock ==
    /\ wpc = "write"
    /\ LoopDone(Worker)
    /\ mu' = NoHolder
    /\ wpc' = "receive"
    /\ err' = FALSE
    /\ UNCHANGED <<config, shared, roundv, connv, update, todo, cur,
                   netv, budget>>

(***************************************************************************)
(* StartVoting, the expiry timer and endVoting.                            *)
(***************************************************************************)
\* A StartVoting without its guard: it starts a round whatever the state.
StartVotingEnterAgain ==
    /\ spc = "idle"
    /\ LockFree
    /\ votingState' = VotingActive
    /\ expired' = FALSE
    /\ todo' = [todo EXCEPT ![Starter] = Registered]
    /\ mu' = Starter
    /\ spc' = "announce"
    /\ UNCHANGED <<config, clients, votes, voteCounts,
                   broadcastChan, timerArmed, endWaiting, epc, finalResults, connv,
                   workv,
                   writev, netv, budget>>

\* StartVoting: s.mu.Lock(); a round that was started before is left alone,
\* otherwise the round becomes ACTIVE with a deadline in the future.
StartVotingEnter ==
    /\ spc = "idle"
    /\ LockFree
    /\ IF votingState # VotingNotStarted
         THEN UNCHANGED <<mu, votingState, expired, todo, spc>>
         ELSE /\ votingState' = VotingActive
              /\ expired' = FALSE
              /\ todo' = [todo EXCEPT ![Starter] = Registered]
              /\ mu' = Starter
              /\ spc' = "announce"
    /\ UNCHANGED <<config, clients, votes, voteCounts,
                   broadcastChan, timerArmed, endWaiting, epc, finalResults, connv,
                   workv,
                   writev, netv, budget>>

\* The announcement loop over s.clients, mutex held.
StartVotingStep ==
    /\ spc = "announce"
    /\ LoopStep(Starter)
    /\ UNCHANGED <<config, mu, shared, roundv, connv, workv, budget>>

StartVotingResume ==
    /\ spc = "announce"
    /\ LoopResume(Starter)
    /\ UNCHANGED <<config, mu, shared, roundv, connv, workv, budget>>

\* time.AfterFunc arms the timer; the deferred Unlock runs.
StartVotingReturn ==
    /\ spc = "announce"
    /\ LoopDone(Starter)
    /\ timerArmed' = TRUE
    /\ mu' = NoHolder
    /\ spc' = "idle"
    /\ err' = FALSE
    /\ UNCHANGED <<config, shared, expired, endWaiting, epc,
                   finalResults, connv, workv, todo, cur, netv, budget>>

\* The deadline passes.
Tick ==
    /\ votingState = VotingActive
    /\ ~expired
    /\ expired' = TRUE
    /\ UNCHANGED <<config, mu, shared, timerArmed, endWaiting, epc,
                   spc, finalResults, connv, workv, loopv, netv, budget>>

\* An endVoting without its guard: it ends and announces whatever the state.
EndVotingUnguarded ==
    /\ votingState' = VotingEnded
    /\ finalResults' = Append(finalResults, voteCounts)
    /\ todo' = [todo EXCEPT ![Ender] = Registered]
    /\ mu' = Ender
    /\ epc' = "announce"

\* An endVoting whose guard lets a round that has ended through.
EndVotingWrongGuard ==
    IF votingState = VotingNotStarted
      THEN UNCHANGED <<mu, votingState, todo, epc, finalResults>>
      ELSE EndVotingUnguarded

\* endVoting from s.mu.Lock() on: nothing to do unless the round is ACTIVE,
\* otherwise it becomes ENDED and the result is announced.
EndVoting ==
    IF votingState # VotingActive
      THEN UNCHANGED <<mu, votingState, todo, epc, finalResults>>
      ELSE /\ votingState' = VotingEnded
           /\ finalResults' = Append(finalResults, voteCounts)
           /\ todo' = [todo EXCEPT ![Ender] = Registered]
           /\ mu' = Ender
           /\ epc' = "announce"

\* A timer whose endVoting does not wait for the mutex.
TimerFireBarging ==
    /\ timerArmed
    /\ expired
    /\ timerArmed' = FALSE
    /\ EndVoting /\ endWaiting' = endWaiting
    /\ UNCHANGED <<config, clients, votes, voteCounts,
                   broadcastChan, expired, spc, connv, workv, writev,
                   netv, budget>>

\* The timer, armed for the round's duration after the deadline was
\* computed, fires and calls s.endVoting() in a goroutine of its own.
TimerFire ==
    /\ timerArmed
    /\ expired
    /\ timerArmed' = FALSE
    /\ IF LockFree
         THEN EndVoting /\ endWaiting' = endWaiting
         ELSE /\ endWaiting' = endWaiting + 1
              /\ UNCHANGED <<mu, votingState, todo, epc, finalResults>>
    /\ UNCHANGED <<config, clients, votes, voteCounts,
                   broadcastChan, expired, spc, connv, workv, writev,
                   netv, budget>>

\* s.mu.Lock() returns in an endVoting that was waiting for the mutex.
EndVotingEnter ==
    /\ endWaiting > 0
    /\ LockFree
    /\ endWaiting' = endWaiting - 1
    /\ EndVoting
    /\ UNCHANGED <<config, clients, votes, voteCounts,
                   broadcastChan, expired, timerArmed, spc, connv,
                   workv, writev, netv, budget>>

EndVotingStep ==
    /\ epc = "announce"
    /\ LoopStep(Ender)
    /\ UNCHANGED <<config, mu, shared, roundv, connv, workv, budget>>

EndVotingResume ==
    /\ epc = "announce"
    /\ LoopResume(Ender)
    /\ UNCHANGED <<config, mu, shared, roundv, connv, workv, budget>>

EndVotingReturn ==
    /\ epc = "announce"
    /\ LoopDone(Ender)
    /\ mu' = NoHolder
    /\ epc' = "idle"
    /\ err' = FALSE
    /\ UNCHANGED <<config, shared, expired, timerArmed, endWaiting,
                   spc, finalResults, connv, workv, todo, cur, netv, budget>>

(***************************************************************************)
(* The system.                                                             *)
(***************************************************************************)
Next ==
    \/ \E c \in Conns : \E i \in IdChoices(c) : HandleRegister(c, i)
    \/ \E c \in Conns : Cleanup(c)
    \/ \E c \in Conns : Stall(c)
    \/ \E c \in Conns : Drain(c)
    \/ \E c \in Conns : PeerClose(c)
    \/ \E c \in Conns : \E o \in Inputs : ReadVote(c, o)
    \/ \E c \in Conns : ProcessVoteEnter(c)
    \/ \E c \in Conns : ProcessVoteIncr(c)
    \/ \E c \in Conns : ProcessVoteReply(c)
    \/ \E c \in Conns : ProcessVoteSend(c)
    \/ \E c \in Conns : BroadcastLockedStep(c)
    \/ \E c \in Conns : BroadcastLockedResume(c)
    \/ \E c \in Conns : BroadcastLockedReturn(c)
    \/ WorkerReceive
    \/ WorkerLock
    \/ WorkerStep
    \/ WorkerResume
    \/ WorkerUnlock
    \/ StartVotingEnter
    \/ StartVotingStep
    \/ StartVotingResume
    \/ StartVotingReturn
    \/ Tick
    \/ TimerFire
    \/ EndVotingEnter
    \/ EndVotingStep
    \/ EndVotingResume
    \/ EndVotingReturn

Spec == Init /\ [][Next]_vars


(***************************************************************************)
(* Fairness.  Every goroutine that can take a step eventually takes one,   *)
(* the deadline passes and the timer fires.  Nothing is assumed of the     *)
(* peers in FairSpec; in LiveSpec a peer that stopped reading eventually   *)
(* reads again.                                                            *)
(***************************************************************************)
HandlerRun(c) ==
    \/ Cleanup(c)
    \/ ProcessVoteEnter(c)
    \/ ProcessVoteIncr(c)
    \/ ProcessVoteReply(c)
    \/ ProcessVoteSend(c)
    \/ BroadcastLockedStep(c)
    \/ BroadcastLockedResume(c)
    \/ BroadcastLockedReturn(c)

WorkerRun == WorkerReceive \/ WorkerLock \/ WorkerStep \/ WorkerResume \/ WorkerUnlock

StarterRun == StartVotingStep \/ StartVotingResume \/ StartVotingReturn

EnderRun == EndVotingEnter \/ EndVotingStep \/ EndVotingResume \/ EndVotingReturn

Fairness ==
    /\ \A c \in Conns : WF_vars(HandlerRun(c))
    /\ WF_vars(WorkerRun)
    /\ WF_vars(StarterRun)
    /\ WF_vars(EnderRun)
    /\ WF_vars(Tick)
    /\ WF_vars(TimerFire)

FairSpec == Spec /\ Fairness

LiveSpec == FairSpec /\ \A c \in Conns : WF_vars(Drain(c))

(***************************************************************************)
(* A burst of votes.  Three clients connect, every peer keeps reading and  *)
(* stays connected, each client sends one VOTE line, and the channel has   *)
(* room for one snapshot: one less than the votes that can follow the one  *)
(* the worker is delivering, as with more than cap(broadcastChan) + 1      *)
(* clients in the program.                                                 *)
(***************************************************************************)
BurstInit == InitWith(Conns) /\ useAsyncBroadcast /\ capacity = 1

\* The one VOTE line of client c.
BurstVote(c, o) ==
    /\ result[c] = NoResult
    /\ nVotes' = nVotes
    /\ ReadLine(c, o)

BurstNext ==
    \/ \E c \in Conns : \E i \in IdChoices(c) : HandleRegister(c, i)
    \/ \E c \in Conns : \E o \in Inputs : BurstVote(c, o)
    \/ \E c \in Conns : ProcessVoteEnter(c)
    \/ \E c \in Conns : ProcessVoteIncr(c)
    \/ \E c \in Conns : ProcessVoteSend(c)
    \/ WorkerReceive
    \/ WorkerLock
    \/ WorkerStep
    \/ WorkerUnlock
    \/ StartVotingEnter
    \/ StartVotingStep
    \/ StartVotingReturn
    \/ Tick
    \/ TimerFire
    \/ EndVotingEnter
    \/ EndVotingStep
    \/ EndVotingReturn

BurstSpec == BurstInit /\ [][BurstNext]_vars

BurstFairSpec == BurstSpec /\ Fairness

(***************************************************************************)
(* Vocabulary of the properties.                                           *)
(***************************************************************************)
\* The step in which c's processVote(id, o) takes the mutex and validates.
Validating(c, o) ==
    \/ LockFree /\ ReadLine(c, o)
    \/ ProcessVoteEnter(c) /\ option[c] = o

\* A step of c's processVote from the Lock on.
CallStep(c) ==
    \/ \E o \in Inputs : Validating(c, o)
    \/ ProcessVoteIncr(c)
    \/ ProcessVoteReply(c)
    \/ ProcessVoteSend(c)
    \/ BroadcastLockedStep(c)
    \/ BroadcastLockedResume(c)
    \/ BroadcastLockedReturn(c)

\* The VoteRecords for option o, and the increments of o between their read
\* and their write.
Records(o) == Cardinality({i \in Ids : votes[i] = o})
InFlight(o) == Cardinality({c \in Conns : pc[c] = "incr" /\ option[c] = o})

\* The sinks an UPDATE loop of g is writing or has yet to write.
UpdateTargets(g) == todo[g] \cup ({cur[g]} \ {NoConn})

\* c is in s.clients under an identity that has a VoteRecord.
RegisteredVoter(c) == \E i \in Ids : clients[i] = c /\ votes[i] # NoVote

(***************************************************************************)
(* The claims.                                                             *)
(***************************************************************************)
\* C1: no lost updates.  In every reachable state, for every option, the
\* tally plus the increments that are between their read and their write
\* (all inside the critical section) equals the number of VoteRecords for
\* that option; so whenever no processVote is inside its increment, and in
\* particular when all calls have returned, the tally equals the count of
\* accepted votes per option.
C1_NoLostUpdates ==
    \A o \in Options : Get(voteCounts, o) + InFlight(o) = Records(o)

\* Two calls with distinct identities for the same option are in flight at
\* once: one inside its increment, the other waiting for the mutex.
C1_Witness ==
    \E c, d \in Conns :
        /\ c # d
        /\ pc[c] = "incr"
        /\ pc[d] = "vote"
        /\ option[d] = option[c]
        /\ id[d] # id[c]
        /\ votes[id[d]] = NoVote
        /\ ~expired

\* C2: at most one vote per identity.  A VoteRecord, once written, never
\* changes, and a call is accepted only for an identity without one; so of
\* all the calls made for an identity at most one is accepted.
C2_AtMostOneVote ==
    [][ /\ \A i \in Ids : votes[i] # NoVote => votes'[i] = votes[i]
        /\ \A c \in Conns : \A o \in Inputs :
             Validating(c, o) /\ result'[c] = Ok =>
                 votes[id[c]] = NoVote /\ votes'[id[c]] = o ]_vars

\* An identity with a VoteRecord has voted again and the call has returned.
C2_Witness ==
    \E c \in Conns :
        /\ result[c] = ErrDuplicate
        /\ pc[c] = "read"
        /\ votes[id[c]] # NoVote
        /\ nVotes = MaxVotes

\* C3: in async mode, a processVote that waits for the mutex while the
\* worker is inside a Write to another client's sink eventually gets past
\* the Lock, whether or not that sink is ever drained.
C3_VoteCompletes ==
    \A c \in Conns :
        (useAsyncBroadcast /\ pc[c] = "vote" /\ cur[Worker] \notin {NoConn, c})
            ~> (pc[c] # "vote")

\* C4: sync mode, global stall.  As long as a processVote stays inside a
\* Write of broadcastLocked it holds the mutex, the registry, the ledger
\* and the round are untouched, no StartVoting or endVoting gets past its
\* Lock(), and every other handler either stays where it is or comes to
\* wait in Lock().
SyncStalled(c) == ~useAsyncBroadcast /\ pc[c] = "broadcast" /\ cur[c] # NoConn

C4_SyncGlobalStall ==
    [][ \A c \in Conns :
          SyncStalled(c) /\ SyncStalled(c)' =>
            /\ mu = c /\ mu' = c
            /\ UNCHANGED <<clients, votes, voteCounts, votingState, epc, spc>>
            /\ \A d \in Conns \ {c} :
                 /\ pc'[d] \in {pc[d], "vote", "cleanup"}
                 /\ result'[d] = result[d] ]_vars

\* A broadcastLocked is inside a Write while another client's vote waits.
C4_Witness ==
    \E c, d \in Conns : SyncStalled(c) /\ d # c /\ pc[d] = "vote"

\* C5: in async mode the worker does not hold the mutex during its fan-out:
\* no Write of the worker is pending or in progress while it holds s.mu.
C5_WorkerWritesUnlocked ==
    (useAsyncBroadcast /\ wpc = "write" /\ UpdateTargets(Worker) # {})
        => mu # Worker

\* C6: delivery eligibility.  Every sink a per-vote broadcast (of either
\* mode) writes or is about to write belongs to a client that is registered
\* under an identity with a VoteRecord; and when the round becomes ACTIVE
\* or ENDED the announcement loop covers exactly the registered clients.
C6_Eligibility ==
    /\ [](\A g \in Conns \cup {Worker} :
            \A c \in UpdateTargets(g) : RegisteredVoter(c))
    /\ [][ /\ votingState' # votingState /\ votingState' = VotingActive
                => todo'[Starter] = Registered
           /\ votingState' # votingState /\ votingState' = VotingEnded
                => todo'[Ender] = Registered ]_vars

\* An UPDATE loop is under way while a client that never voted is
\* registered: the loop has that client's sink neither written nor pending.
C6_Witness ==
    \E g \in Conns \cup {Worker} : \E i \in Ids :
        /\ UpdateTargets(g) # {}
        /\ clients[i] # NoConn
        /\ votes[i] = NoVote
        /\ clients[i] \notin UpdateTargets(g)

\* C7: a vote validated while the round is NOT_STARTED is answered "ERRO:
\* Votacao nao iniciada", and no step of that call changes the votes, the
\* tally, the round state or the channel.
C7_NotStartedRejected ==
    [][ \A c \in Conns :
          /\ \A o \in Inputs :
               Validating(c, o) /\ votingState = VotingNotStarted
                   => result'[c] = ErrNotStarted
          /\ CallStep(c) /\ result'[c] = ErrNotStarted
               => UNCHANGED <<votes, voteCounts, votingState, broadcastChan>>
       ]_vars

\* A vote was rejected before the round started and the call has returned.
C7_Witness ==
    \E c \in Conns :
        /\ result[c] = ErrNotStarted
        /\ pc[c] = "read"
        /\ votingState = VotingNotStarted
        /\ nVotes > 0

C9_DuplicateRejected ==
    [][ \A c \in Conns :
          /\ \A o \in Inputs :
               ( /\ Validating(c, o)
                 /\ votingState = VotingActive
                 /\ ~expired
                 /\ votes[id[c]] # NoVote )
                   => result'[c] = ErrDuplicate
          /\ CallStep(c) /\ result'[c] = ErrDuplicate
               => UNCHANGED <<votes, voteCounts>> ]_vars

\* x1 voted A, voted again and was refused: the tally is still {A:1,B:0,C:0}.
C9_Witness ==
    \E c \in Conns :
        /\ result[c] = ErrDuplicate
        /\ id[c] = "x1"
        /\ votes = [i \in Ids |-> IF i = "x1" THEN "A" ELSE NoVote]
        /\ voteCounts = [o \in Options |-> IF o = "A" THEN 1 ELSE 0]
        /\ mu = NoHolder

\* C10: a vote for an option outside the option set, by an identity without
\* a VoteRecord in an ACTIVE round before the deadline, is answered "ERRO:
\* Opcao invalida"; no step of that call changes votes or tally, so the
\* identity still has no VoteRecord; and a vote for a valid option by such
\* an identity is accepted.
C10_InvalidOptionRejected ==
    [][ \A c \in Conns :
          /\ \A o \in Inputs :
               ( /\ Validating(c, o)
                 /\ votingState = VotingActive
                 /\ ~expired
                 /\ votes[id[c]] = NoVote )
                   => result'[c] = (IF o \in Options THEN Ok ELSE ErrInvalid)
          /\ CallStep(c) /\ result'[c] = ErrInvalid
               => UNCHANGED <<votes, voteCounts>> ]_vars

\* A vote for "D" was refused and the call has returned: the round is still
\* open and the identity still has no VoteRecord.
C10_Witness ==
    \E c \in Conns :
        /\ result[c] = ErrInvalid
        /\ pc[c] = "read"
        /\ votes[id[c]] = NoVote
        /\ votingState = VotingActive
        /\ ~expired

\* C11: the validations run in a fixed order and the first failure wins.
\* Whatever the identity and the option, a vote validated in a round that is
\* NOT_STARTED, ENDED or past its deadline is answered with the round's
\* reason; in an open round a vote by an identity with a VoteRecord is
\* answered "ERRO: Voto duplicado" even when its option is not in the set;
\* only then is the option looked at.
C11_ValidationOrder ==
    [][ \A c \in Conns : \A o \in Inputs :
          Validating(c, o) =>
            /\ votingState = VotingNotStarted => result'[c] = ErrNotStarted
            /\ votingState = VotingEnded => result'[c] = ErrEnded
            /\ votingState = VotingActive /\ expired => result'[c] = ErrExpired
            /\ votingState = VotingActive /\ ~expired =>
                 /\ votes[id[c]] # NoVote => result'[c] = ErrDuplicate
                 /\ votes[id[c]] = NoVote /\ o \notin Options
                      => result'[c] = ErrInvalid
            /\ result'[c] \in {ErrDuplicate, ErrInvalid}
                 => votingState = VotingActive /\ ~expired ]_vars

\* A vote for "D" by an identity that has a VoteRecord waited for the mutex,
\* was answered "ERRO: Voto duplicado", and the answer is still being written.
C11_Witness ==
    \E c \in Conns :
        /\ pc[c] = "reply"
        /\ option[c] \notin Options
        /\ option[c] # NoVote
        /\ result[c] = ErrDuplicate
        /\ votes[id[c]] # NoVote

\* C12: a registration under a name that is in s.clients is refused with
\* "ERRO: NOME em uso" and leaves the registry alone, any other stores the
\* connection under the name; so of the registrations racing for one name
\* exactly one succeeds: two live sessions never have the same identity, and
\* every live session is the one the registry holds for its identity.
C12_RegisterUnique ==
    /\ [](\A c, d \in Conns :
            c # d /\ Connected(c) /\ Connected(d) => id[c] # id[d])
    /\ [](\A c \in Conns : Connected(c) => clients[id[c]] = c)
    /\ [][ \A c \in Conns : \A i \in Ids :
             HandleRegister(c, i) =>
               IF clients[i] # NoConn
                 THEN /\ result'[c] = ErrNameInUse
                      /\ pc'[c] = "closed"
                      /\ clients' = clients
                 ELSE /\ clients' = [clients EXCEPT ![i] = c]
                      /\ pc'[c] = "read" ]_vars

\* Two connections asked for the same name: one holds it, the other was
\* refused and closed.
C12_Witness ==
    \E c, d \in Conns :
        /\ c # d
        /\ id[c] = id[d]
        /\ Connected(c)
        /\ clients[id[c]] = c
        /\ result[d] = ErrNameInUse
        /\ pc[d] = "closed"

\* C13: the removal from the registry is idempotent.  For every registry the
\* server reaches and every identity, removing the identity twice gives what
\* removing it once gives, and removing an identity that is absent gives the
\* registry back; the cleanup of a handler removes its own identity and
\* nothing else.
C13_UnregisterIdempotent ==
    /\ [](\A i \in Ids :
            /\ Delete(Delete(clients, i), i) = Delete(clients, i)
            /\ clients[i] = NoConn => Delete(clients, i) = clients)
    /\ [][ \A c \in Conns :
             pc[c] \in {"read", "cleanup"} /\ pc'[c] = "closed" =>
               /\ clients'[id[c]] = NoConn
               /\ \A j \in Ids \ {id[c]} : clients'[j] = clients[j] ]_vars

\* A handler has cleaned up, its identity is absent, and another identity is
\* still registered.
C13_Witness ==
    \E c, d \in Conns :
        /\ pc[c] = "closed"
        /\ result[c] # ErrNameInUse
        /\ clients[id[c]] = NoConn
        /\ id[d] # id[c]
        /\ clients[id[d]] = d

\* C14: the round state only moves NOT_STARTED -> ACTIVE -> ENDED.  Every
\* step that changes it goes from NOT_STARTED to ACTIVE or from ACTIVE to
\* ENDED, so it never goes back, never skips ACTIVE, and ENDED is final.
C14_PhaseMonotonic ==
    [][ votingState' # votingState =>
          \/ votingState = VotingNotStarted /\ votingState' = VotingActive
          \/ votingState = VotingActive /\ votingState' = VotingEnded ]_vars

\* The round has ended and StartVoting could be called again.
C14_Witness ==
    /\ votingState = VotingEnded
    /\ spc = "idle"
    /\ mu = NoHolder
    /\ epc = "idle"

\* C15: a StartVoting that finds the round started, and an endVoting that
\* finds the round not ACTIVE, do nothing: the round state, the deadline,
\* the timer, the votes and the tally stay as they are, no announcement loop
\* starts, no result is announced, and the mutex is free again.
C15_NoOpTransitions ==
    [][ /\ StartVotingEnter /\ votingState # VotingNotStarted
             => UNCHANGED <<votingState, expired, timerArmed, votes,
                            voteCounts, todo, spc, finalResults, mu>>
        /\ ( /\ votingState # VotingActive
             /\ \/ EndVotingEnter
                \/ TimerFire /\ LockFree )
             => UNCHANGED <<votingState, expired, votes, voteCounts, todo,
                            epc, finalResults, mu>> ]_vars

\* The round was ended once, and both the timer and an expired vote have
\* called endVoting: one of the calls found the round already ENDED.
C15_Witness ==
    /\ votingState = VotingEnded
    /\ Len(finalResults) = 1
    /\ ~timerArmed
    /\ endWaiting = 0
    /\ epc = "idle"
    /\ \E c \in Conns : result[c] = ErrExpired /\ pc[c] # "reply"

\* C16: a round transition announces once to every client registered at that
\* moment.  The announcement loops of StartVoting and endVoting are loaded
\* with the registered clients in the step of the transition and at no other
\* time, and give up their sinks one by one; the result is announced at most
\* once, exactly when the round becomes ENDED, and it is the tally of that
\* moment, whichever of the timer's and the expired votes' endVoting calls
\* gets the mutex first.
C16_AnnounceOnce ==
    /\ [](Len(finalResults) <= 1)
    /\ [](votingState = VotingEnded <=> Len(finalResults) = 1)
    /\ [][ /\ votingState' # votingState /\ votingState' = VotingEnded
               => /\ finalResults' = <<voteCounts>>
                  /\ voteCounts' = voteCounts
                  /\ todo[Ender] = {} /\ todo'[Ender] = Registered
           /\ votingState' # votingState /\ votingState' = VotingActive
               => todo[Starter] = {} /\ todo'[Starter] = Registered
           /\ \A g \in {Starter, Ender} :
                 votingState' = votingState /\ todo'[g] # todo[g]
                   => \E c \in todo[g] : todo'[g] = todo[g] \ {c}
           /\ finalResults' # finalResults => votingState' # votingState
         ]_vars

\* While the result, a tally with a vote in it, is being announced to two
\* registered clients, the timer has fired and another endVoting, spawned by
\* an expired vote, waits for the mutex.
C16_Witness ==
    /\ epc = "announce"
    /\ Cardinality(Registered) = 2
    /\ finalResults = <<voteCounts>>
    /\ \E o \in Options : voteCounts[o] > 0
    /\ ~timerArmed
    /\ endWaiting > 0

\* a is below b in every option.
Leq(a, b) == \A o \in Options : Get(a, o) <= Get(b, o)

\* C17: ordering.  The tally only grows; the channel holds snapshots in the
\* order they were taken, oldest first, each below the next and the last
\* below the tally; a snapshot is enqueued by the holder of the mutex and is
\* the tally of that moment; the worker takes the oldest and nothing else;
\* so the snapshot the worker is delivering only grows, and the UPDATEs a
\* client gets, all written by the one worker (async) or under the mutex
\* from the tally itself (sync), never go back in any option.
C17_UpdateOrder ==
    /\ [](/\ \A k \in 1..(Len(broadcastChan) - 1) :
               Leq(broadcastChan[k], broadcastChan[k + 1])
          /\ broadcastChan # <<>> =>
               /\ Leq(update, broadcastChan[1])
               /\ Leq(broadcastChan[Len(broadcastChan)], voteCounts)
          /\ Leq(update, voteCounts))
    /\ [][ /\ Leq(voteCounts, voteCounts')
           /\ Leq(update, update')
           /\ update' # update =>
                /\ broadcastChan # <<>>
                /\ update' = Head(broadcastChan)
                /\ broadcastChan' = Tail(broadcastChan)
           /\ Len(broadcastChan') > Len(broadcastChan) =>
                /\ broadcastChan' = Append(broadcastChan, voteCounts')
                /\ mu \in Conns
           /\ wpc = "write" /\ wpc' = "write" => update' = update ]_vars

\* The worker is delivering one snapshot while a newer one is queued.
C17_Witness ==
    /\ wpc = "write"
    /\ UpdateTargets(Worker) # {}
    /\ \E o \in Options : update[o] > 0
    /\ Len(broadcastChan) = 1
    /\ broadcastChan[1] # update

\* g is inside one of its loops over s.clients.
InLoop(g) ==
    \/ g \in Conns /\ pc[g] = "broadcast"
    \/ g = Worker /\ wpc = "write"
    \/ g = Starter /\ spc = "announce"
    \/ g = Ender /\ epc = "announce"

\* C18: best-effort delivery.  A Write that fails does not end the pass: a
\* loop loses its sinks one at a time, whether the Write succeeded or not,
\* and is left only when no sink remains; and no step of a loop, failing or
\* not, touches the votes or the tally.
C18_BestEffort ==
    [][ \A g \in Goroutines :
          InLoop(g) =>
            /\ todo'[g] # todo[g]
                 => \E c \in todo[g] : todo'[g] = todo[g] \ {c}
            /\ ~InLoop(g)' => todo[g] = {} /\ cur[g] = NoConn
            /\ UNCHANGED <<votes, voteCounts>> ]_vars

\* An UPDATE pass has just had a Write fail on a sink whose peer has gone,
\* and another eligible sink is still to be written.
C18_Witness ==
    \E g \in Conns \cup {Worker} :
        /\ InLoop(g)
        /\ err
        /\ todo[g] # {}
        /\ \A c \in Dialled : votes[id[c]] # NoVote
        /\ \A o \in Options : voteCounts[o] = Records(o)

Answered(c) ==
    /\ pc[c] \in {"incr", "reply"}
    /\ result[c] = Ok
    /\ pc'[c] \notin {"incr", "reply"}

\* C20: backpressure of the dispatch channel.  The channel never holds more
\* than its capacity.  In async mode an accepted vote, once answered, puts
\* the snapshot of the tally on the channel in that very step when there is
\* room, and returns; when there is none it stays in the send, holding the
\* mutex, for as long as the channel is full, and when it leaves the send it
\* has put its snapshot on the channel.  Snapshots leave the channel only
\* from its head and into the worker, so none is dropped.
C20_Backpressure ==
    /\ [](Len(broadcastChan) <= capacity)
    /\ [][ /\ \A c \in Conns :
                /\ useAsyncBroadcast /\ Answered(c) =>
                     IF Len(broadcastChan) < capacity
                       THEN /\ broadcastChan' =
                                 Append(broadcastChan, Snapshot(voteCounts'))
                            /\ pc'[c] \in {"read", "cleanup"}
                            /\ mu' = NoHolder
                       ELSE /\ pc'[c] = "send"
                            /\ mu' = c
                            /\ broadcastChan' = broadcastChan
                /\ pc[c] = "send" =>
                     /\ mu = c
                     /\ Len(broadcastChan) = capacity => pc'[c] = "send"
                     /\ pc'[c] # "send" =>
                          /\ broadcastChan' =
                                Append(broadcastChan, Snapshot(voteCounts))
                          /\ pc'[c] \in {"read", "cleanup"}
           /\ Len(broadcastChan') < Len(broadcastChan) =>
                /\ broadcastChan' = Tail(broadcastChan)
                /\ update' = Head(broadcastChan)
           /\ Len(broadcastChan') > Len(broadcastChan) =>
                \E c \in Conns : result[c] = Ok /\ mu = c ]_vars

\* The channel is full and an accepted vote is blocked in the send, holding
\* the mutex.
C20_Witness ==
    \E c \in Conns :
        /\ pc[c] = "send"
        /\ mu = c
        /\ Len(broadcastChan) = capacity
        /\ votes[id[c]] # NoVote

\* C21: async mode with one sink blocked.  While the worker is inside a
\* Write to one client's sink, the other eligible sinks the update has yet
\* to reach eventually all get it, and a handler of another client that
\* waits for the mutex, to vote or to unregister, eventually gets it,
\* whether or not the blocked sink is ever drained.
C21_OthersStillServed ==
    /\ (useAsyncBroadcast /\ wpc = "write" /\ cur[Worker] # NoConn
            /\ todo[Worker] # {})
          ~> (todo[Worker] = {})
    /\ \A c \in Conns :
          (useAsyncBroadcast /\ cur[Worker] \notin {NoConn, c}
              /\ pc[c] \in {"vote", "cleanup"})
            ~> (pc[c] \notin {"vote", "cleanup"})

\* C22: automatic expiry.  A round that is ACTIVE eventually is ENDED: the
\* timer armed by StartVoting fires once the deadline has passed and its
\* endVoting ends a round that is still ACTIVE.  The timer's endVoting acts
\* under the mutex processVote uses: it passes its Lock() only when the
\* mutex is free, and the step that ends the round leaves the mutex held by
\* endVoting.
C22_AutoExpiry ==
    /\ (votingState = VotingActive) ~> (votingState = VotingEnded)
    /\ [][ /\ TimerFire => expired /\ ~timerArmed'
           /\ TimerFire /\ ~LockFree =>
                /\ endWaiting' = endWaiting + 1
                /\ votingState' = votingState
           /\ (TimerFire \/ EndVotingEnter) /\ LockFree
                 /\ votingState = VotingActive =>
                /\ votingState' = VotingEnded
                /\ mu' = Ender
           /\ votingState' # votingState /\ votingState' = VotingEnded =>
                /\ mu = NoHolder
                /\ mu' = Ender ]_vars

\* g is between an s.mu.Lock() and the matching s.mu.Unlock().
Inside(g) ==
    \/ g \in Conns /\ pc[g] \in {"incr", "reply", "send", "broadcast"}
    \/ g = Worker /\ wpc = "write"
    \/ g = Starter /\ spc = "announce"
    \/ g = Ender /\ epc = "announce"

\* C23: mutual exclusion.  A goroutine is between Lock and Unlock exactly
\* when it is the holder of the mutex, so at most one is at any time.  The
\* registry, the ledger, the tally and the round state change only in a
\* step of the holder or in a step that starts with the mutex free and
\* takes it; a goroutine starts a range over the registry only in the step
\* in which it takes the mutex and stays the holder while sinks remain to
\* be written.
C23_MutualExclusion ==
    /\ [](\A g \in Goroutines : Inside(g) <=> mu = g)
    /\ [](\A g \in Goroutines : UpdateTargets(g) # {} => mu = g)
    /\ [][ /\ <<clients, votes, voteCounts, votingState>>'
                    # <<clients, votes, voteCounts, votingState>>
                 => \/ mu = NoHolder
                    \/ mu \in Conns /\ CallStep(mu)
           /\ \A g \in Goroutines :
                ~(todo'[g] \subseteq todo[g])
                   => mu = NoHolder \/ (mu = g /\ g \in Conns /\ CallStep(g))
           /\ mu # NoHolder /\ mu' # mu => mu' = NoHolder ]_vars

\* The worker holds the mutex while a vote, a cleanup and an endVoting wait
\* for it.
C23_Witness ==
    \E c, d \in Conns :
        /\ mu = Worker
        /\ pc[c] = "vote"
        /\ pc[d] = "cleanup"
        /\ endWaiting > 0

\* The number of votes a tally counts.
RECURSIVE TotalOver(_, _)
TotalOver(t, S) ==
    IF S = {} THEN 0
    ELSE LET o == CHOOSE x \in S : TRUE IN t[o] + TotalOver(t, S \ {o})

Total(t) == TotalOver(t, Options)

\* The votes accepted so far, and those of them whose processVote has yet to
\* reach the end of its send on the channel.
Accepted == Cardinality({i \in Ids : votes[i] # NoVote})
Unsent ==
    Cardinality({c \in Conns :
                   result[c] = Ok /\ pc[c] \in {"incr", "reply", "send"}})

\* C24: snapshots.  In async mode every accepted vote whose processVote has
\* got past its send has put exactly one snapshot on the channel and no
\* rejected vote has put any: the n-th snapshot counts n votes, the queued
\* ones are the latest in order and the one the worker holds is the one
\* before them.  A snapshot put on the channel is the tally as the accepted
\* vote left it; a queued snapshot is never altered, and the worker's
\* payload is the snapshot it took from the head of the channel, whatever
\* the tally has become.  In sync mode the channel stays empty.
C24_Snapshots ==
    /\ [](useAsyncBroadcast =>
            /\ \A j \in 1..Len(broadcastChan) :
                 Total(broadcastChan[j])
                    = Accepted - Unsent - Len(broadcastChan) + j
            /\ Total(update) = Accepted - Unsent - Len(broadcastChan))
    /\ [](~useAsyncBroadcast => broadcastChan = <<>> /\ Total(update) = 0)
    /\ [][ /\ Len(broadcastChan') = Len(broadcastChan)
                 => broadcastChan' = broadcastChan
           /\ Len(broadcastChan') > Len(broadcastChan)
                 => /\ broadcastChan' = Append(broadcastChan, voteCounts')
                    /\ voteCounts' = voteCounts \/ \E c \in Conns : ProcessVoteIncr(c)
                    /\ \E c \in Conns : CallStep(c) /\ result'[c] = Ok
           /\ \A c \in Conns :
                CallStep(c) /\ result'[c] \in Rejections
                   => broadcastChan' = broadcastChan
           /\ update' # update
                 => /\ broadcastChan # <<>>
                    /\ update' = Head(broadcastChan)
                    /\ broadcastChan' = Tail(broadcastChan) ]_vars

\* The worker is writing the snapshot of the first vote while the second
\* vote's snapshot is queued and the tally already counts both.
C24_Witness ==
    /\ wpc = "write"
    /\ UpdateTargets(Worker) # {}
    /\ Total(update) = 1
    /\ Len(broadcastChan) = 1
    /\ Total(broadcastChan[1]) = 2
    /\ Total(voteCounts) = 2
    /\ update # voteCounts

\* C25: rejections stay local.  The answer of a rejected vote is written to
\* the sink registered under the caller's own identity, which is the
\* caller's connection.  A step of a processVote that rejects leaves the
\* ledger, the tally, the round, the channel and every UPDATE loop as they
\* were and touches no other client's answer, and when the call returns the
\* mutex is free.  A refused registration ("NOME em uso") changes nothing
\* but the refused connection, which is closed, and leaves the mutex free.
C25_RejectionsLocal ==
    /\ [](\A c \in Conns :
            result[c] \in Rejections /\ pc[c] = "reply"
               => clients[id[c]] = c /\ mu = c)
    /\ [][ \A c \in Conns :
             /\ CallStep(c) /\ result'[c] \in Rejections =>
                  /\ UNCHANGED <<clients, votes, voteCounts, votingState,
                                 broadcastChan, workv, loopv, sink>>
                  /\ \A d \in Conns \ {c} :
                       result'[d] = result[d] /\ pc'[d] = pc[d]
                  /\ pc'[c] \in {"reply", "read", "cleanup"}
                  /\ pc'[c] # "reply" => mu' = NoHolder
             /\ (\E i \in Ids : HandleRegister(c, i))
                   /\ result'[c] = ErrNameInUse =>
                  /\ UNCHANGED <<shared, roundv, workv, loopv, mu>>
                  /\ mu = NoHolder
                  /\ pc'[c] = "closed"
                  /\ \A d \in Conns \ {c} :
                       /\ result'[d] = result[d]
                       /\ pc'[d] = pc[d]
                       /\ sink'[d] = sink[d] ]_vars

\* One connection was refused its name and the other had a vote rejected:
\* the call has returned, the mutex is free, nothing is queued and the
\* worker has nothing to deliver.
C25_Witness ==
    \E c, d \in Conns :
        /\ result[c] = ErrNameInUse
        /\ pc[c] = "closed"
        /\ result[d] \in Rejections
        /\ pc[d] = "read"
        /\ mu = NoHolder
        /\ broadcastChan = <<>>
        /\ wpc = "receive"
        /\ \A g \in Goroutines : UpdateTargets(g) = {}

\* The ledger as its callers see it, whatever the broadcast strategy: the
\* registry, the VoteRecords, the tally with the increments in progress
\* counted, the round with its deadline, and each connection's answer.
Tally == [o \in Options |-> voteCounts[o] + InFlight(o)]
ledgerView == <<clients, votes, Tally, votingState, expired, result>>

\* The operations on the ledger, each a function of the ledger and of its
\* arguments alone.
LedgerRegister(c, i) ==
    /\ IF clients[i] # NoConn
         THEN /\ result' = [result EXCEPT ![c] = ErrNameInUse]
              /\ clients' = clients
         ELSE /\ clients' = [clients EXCEPT ![i] = c]
              /\ result' = result
    /\ UNCHANGED <<votes, votingState, expired>>
    /\ Tally' = Tally

LedgerUnregister(c) ==
    /\ clients' = [clients EXCEPT ![id[c]] = NoConn]
    /\ UNCHANGED <<votes, votingState, expired, result>>
    /\ Tally' = Tally

LedgerVote(c, o) ==
    LET r == Validate(votingState, expired, votes[id[c]] # NoVote, o) IN
    /\ result' = [result EXCEPT ![c] = r]
    /\ votes' = IF r = Ok THEN [votes EXCEPT ![id[c]] = o] ELSE votes
    /\ Tally' = IF r = Ok THEN [Tally EXCEPT ![o] = @ + 1] ELSE Tally
    /\ UNCHANGED <<clients, votingState, expired>>

LedgerStart ==
    /\ votingState = VotingNotStarted
    /\ votingState' = VotingActive
    /\ UNCHANGED <<clients, votes, expired, result>>
    /\ Tally' = Tally

LedgerDeadline ==
    /\ votingState = VotingActive
    /\ expired' = TRUE
    /\ UNCHANGED <<clients, votes, votingState, result>>
    /\ Tally' = Tally

LedgerEnd ==
    /\ votingState = VotingActive
    /\ votingState' = VotingEnded
    /\ UNCHANGED <<clients, votes, expired, result>>
    /\ Tally' = Tally

\* C27: the two strategies agree on the ledger.  In sync as in async mode
\* every step either leaves the ledger as it is or is one operation on it,
\* whose outcome (answer, VoteRecords, tally, round) is determined by the
\* ledger and the operation's arguments and not by the strategy; and the
\* per-vote broadcast of either strategy starts with the same sinks: those
\* of the registered clients that have a VoteRecord.
C27_SameLedger ==
    [][ /\ \/ ledgerView' = ledgerView
           \/ \E c \in Conns : \E i \in Ids : LedgerRegister(c, i)
           \/ \E c \in Conns : LedgerUnregister(c)
           \/ \E c \in Conns : \E o \in Inputs : LedgerVote(c, o)
           \/ LedgerStart
           \/ LedgerDeadline
           \/ LedgerEnd
        /\ \A g \in Conns \cup {Worker} :
             ~(todo'[g] \subseteq todo[g])
                => todo'[g] = {clients'[j] :
                                 j \in {k \in Ids : clients'[k] # NoConn
                                                   /\ votes'[k] # NoVote}} ]_vars

\* Async mode: one vote was accepted, another was rejected, and the worker
\* starts its broadcast with the one sink that is eligible.
C27_Witness ==
    /\ useAsyncBroadcast
    /\ wpc = "write"
    /\ Cardinality(todo[Worker]) = 1
    /\ todo[Worker] = Eligible
    /\ \E c, d \in Conns :
         /\ result[c] = Ok
         /\ result[d] \in Rejections
         /\ Connected(d)
         /\ Tally[votes[id[c]]] = 1

\* C29: the ledger is frozen once the round is ENDED.  A vote validated
\* after the end is answered "ERRO: Votacao encerrada"; no increment is in
\* progress when the round ends or later; votes and tally never change
\* again; so the result endVoting announced is the tally of every later
\* state.
C29_FrozenAfterEnd ==
    /\ [](votingState = VotingEnded =>
            /\ finalResults # <<>>
            /\ finalResults[1] = voteCounts
            /\ \A c \in Conns : pc[c] # "incr"
            /\ \A o \in Options : voteCounts[o] = Records(o))
    /\ [][ /\ votingState = VotingEnded
                 => votes' = votes /\ voteCounts' = voteCounts
           /\ \A c \in Conns : \A o \in Inputs :
                Validating(c, o) /\ votingState = VotingEnded
                   => result'[c] = ErrEnded ]_vars

\* After the round ended with a vote in the tally, a vote was rejected as
\* too late and the call has returned.
C29_Witness ==
    \E c \in Conns :
        /\ votingState = VotingEnded
        /\ epc = "idle"
        /\ result[c] = ErrEnded
        /\ pc[c] = "read"
        /\ Total(voteCounts) > 0
        /\ finalResults = <<voteCounts>>

\* C28: async mode with responsive sinks has no lock/queue cycle.  No
\* processVote is blocked in its send on the full channel, holding the mutex,
\* while the worker, the only receiver, waits in s.mu.Lock().
C28_NoSendLockCycle ==
    \A c \in Conns :
        ~(/\ useAsyncBroadcast
          /\ pc[c] = "send"
          /\ mu = c
          /\ Len(broadcastChan) = capacity
          /\ wpc = "lock")

\* The tally the UPDATE loop of g writes: the worker's snapshot, or, in
\* broadcastLocked, the live s.voteCounts.
Payload(g) == IF g = Worker THEN update ELSE voteCounts

\* C30 as stated: every UPDATE written to a client carries a tally that
\* includes the client's own vote, so it counts at least one vote for the
\* option the client voted for.
C30_OwnVoteIncluded ==
    \A g \in Conns \cup {Worker} :
        \A c \in UpdateTargets(g) :
            \A i \in Ids :
                clients[i] = c => votes[i] # NoVote /\ Payload(g)[votes[i]] >= 1

\* C30 as amended: in sync mode every UPDATE carries the tally that counts
\* every VoteRecord, the recipient's included.  In async mode an UPDATE is
\* written to the clients that have a VoteRecord when it is written and
\* carries the snapshot of an accepted vote that may be older than the
\* recipient's: it never exceeds the tally, and as long as it lacks an
\* accepted vote a newer snapshot is queued or about to be sent.
C30_OwnVoteWhenSync ==
    /\ \A g \in Conns :
         ~useAsyncBroadcast /\ pc[g] = "broadcast" =>
            /\ \A o \in Options : Payload(g)[o] = Records(o)
            /\ \A c \in UpdateTargets(g) : RegisteredVoter(c)
    /\ useAsyncBroadcast /\ wpc = "write" =>
         /\ \A c \in UpdateTargets(Worker) : RegisteredVoter(c)
         /\ Leq(Payload(Worker), voteCounts)
         /\ Total(Payload(Worker)) >= 1
         /\ Total(Payload(Worker)) < Accepted
               => broadcastChan # <<>> \/ Unsent > 0
         /\ Total(Payload(Worker)) + Len(broadcastChan) + Unsent = Accepted

\* The worker is about to write, to a client that has voted since, the
\* snapshot of an earlier vote, which has no vote for that client's option;
\* the snapshot of the client's own vote is queued.
C30_Witness ==
    \E c \in UpdateTargets(Worker) :
        /\ wpc = "write"
        /\ RegisteredVoter(c)
        /\ clients[id[c]] = c
        /\ update[votes[id[c]]] = 0
        /\ Len(broadcastChan) = 1
        /\ broadcastChan[1][votes[id[c]]] = 1

\* endVoting has written its announcement to c: the round is ENDED, the
\* announcement loop has got past c, and c, whose vote was accepted in this
\* session, has been registered and connected since before the end.
Announced(c) ==
    /\ votingState = VotingEnded
    /\ c \notin UpdateTargets(Ender)
    /\ result[c] = Ok
    /\ clients[id[c]] = c
    /\ sink[c] # "gone"

\* C31: the announcement of the result is the last message with a tally.
\* Once endVoting has written "VOTACAO_ENCERRADA" to a client, no UPDATE
\* loop, of the worker or of a broadcastLocked, writes or has yet to write
\* to that client.
C31_ResultIsLast ==
    \A c \in Conns :
        Announced(c) =>
            \A g \in Conns \cup {Worker} : c \notin UpdateTargets(g)

\* C32: unregistering removes the registry entry and nothing else.  A step
\* that takes an identity out of s.clients leaves the other entries, the
\* votes, the tally, the round, the channel and the worker's update as they
\* were.  So a vote outlives its voter's connection: a later connection
\* under the same identity has its vote rejected as a duplicate while the
\* round is open, and is a target of every per-vote broadcast that starts
\* while it is registered, though it has not voted itself.
C32_UnregisterFrame ==
    [][ /\ \A i \in Ids :
             clients[i] # NoConn /\ clients'[i] = NoConn =>
                /\ \A j \in Ids \ {i} : clients'[j] = clients[j]
                /\ UNCHANGED <<votes, voteCounts, votingState, expired,
                               broadcastChan, update, finalResults>>
        /\ \A c \in Conns : \A o \in Inputs :
             Validating(c, o) /\ result[c] # Ok /\ votes[id[c]] # NoVote
                  /\ votingState = VotingActive /\ ~expired
                => result'[c] = ErrDuplicate /\ votes' = votes
        /\ \A g \in Conns \cup {Worker} :
             ~(todo'[g] \subseteq todo[g]) =>
                \A c \in Conns :
                    clients'[id[c]] = c /\ votes'[id[c]] # NoVote
                       => c \in todo'[g] ]_vars

\* Identity x voted on a connection that has since closed; the connection
\* that registered as x afterwards had its vote rejected as a duplicate and
\* is a target of the worker's UPDATE.
C32_Witness ==
    \E c, d \in Conns :
        /\ c # d
        /\ id[c] = id[d]
        /\ pc[c] = "closed"
        /\ result[c] = Ok
        /\ clients[id[d]] = d
        /\ result[d] = ErrDuplicate
        /\ wpc = "write"
        /\ d \in UpdateTargets(Worker)

\* c is inside processVote, from its Lock() to its return.
InProcessVote(c) == pc[c] \in {"vote", "incr", "reply", "send", "broadcast"}

\* C33: a connection removes only its own session.  A registry entry is
\* removed only by the handler of the connection it holds, as that handler
\* closes; a connection refused its name is closed for good and the refusal
\* leaves the registry as it was; so whenever a connection is inside
\* processVote the entry of its identity is that connection.
C33_OwnSessionOnly ==
    /\ [](\A c \in Conns : InProcessVote(c) => clients[id[c]] = c)
    /\ [](\A c \in Conns :
            result[c] = ErrNameInUse
               => pc[c] = "closed" /\ clients[id[c]] # c)
    /\ [][ /\ \A i \in Ids :
                clients[i] # NoConn /\ clients'[i] # clients[i] =>
                   /\ clients'[i] = NoConn
                   /\ id[clients[i]] = i
                   /\ pc[clients[i]] \in {"read", "cleanup"}
                   /\ pc'[clients[i]] = "closed"
           /\ \A c \in Conns :
                result'[c] = ErrNameInUse /\ result[c] # ErrNameInUse
                   => clients' = clients ]_vars

\* A connection was refused the name under which another connection, still
\* registered, is inside processVote.
C33_Witness ==
    \E c, d \in Conns :
        /\ result[c] = ErrNameInUse
        /\ pc[c] = "closed"
        /\ id[c] = id[d]
        /\ clients[id[d]] = d
        /\ pc[d] = "incr"

\* C34: the "OK" answer comes before any UPDATE.  A connection under an
\* identity without a VoteRecord is the target of no UPDATE loop; and while
\* a processVote has accepted a vote and has not got past the Write of its
\* answer, it holds the mutex and no UPDATE loop, of either strategy, has a
\* sink to write or is inside a Write.
C34_OkBeforeUpdate ==
    /\ \A c \in Conns : \A g \in Conns \cup {Worker} :
         Connected(c) /\ votes[id[c]] = NoVote => c \notin UpdateTargets(g)
    /\ \A c \in Conns :
         result[c] = Ok /\ pc[c] \in {"incr", "reply"} =>
            /\ mu = c
            /\ \A g \in Conns \cup {Worker} : UpdateTargets(g) = {}

\* The voter's peer has stopped reading: its processVote is inside the
\* Write of the "OK" answer while the worker, carrying an earlier vote's
\* snapshot whose broadcast will include the voter, waits for the mutex.
C34_Witness ==
    \E c \in Conns :
        /\ result[c] = Ok
        /\ pc[c] = "reply"
        /\ sink[c] = "stalled"
        /\ wpc = "lock"
        /\ Total(update) > 0

\* C35: the synchronous broadcast.  In sync mode there is no channel and no
\* worker.  An accepted vote, once answered, enters broadcastLocked with
\* every connection that is then registered under an identity with a
\* VoteRecord, the voter's own among them, as the sinks of its loop; while
\* it is in the loop it holds the mutex, the payload is the tally, which
\* counts its vote, and the registry, the VoteRecords and the tally stay as
\* they are; every step of the loop takes exactly one sink out, none comes
\* in, and processVote returns only when none is left.  In async mode no
\* processVote is ever in an UPDATE loop.
C35_SyncBroadcast ==
    /\ [](~useAsyncBroadcast =>
            /\ capacity = 0 /\ broadcastChan = <<>>
            /\ wpc = "receive" /\ UpdateTargets(Worker) = {})
    /\ [](useAsyncBroadcast =>
            \A c \in Conns : pc[c] # "broadcast" /\ UpdateTargets(c) = {})
    /\ [](\A c \in Conns : pc[c] = "broadcast" =>
            /\ mu = c /\ result[c] = Ok
            /\ votes[id[c]] = option[c]
            /\ \A o \in Options : Payload(c)[o] = Records(o))
    /\ [][ \A c \in Conns :
             /\ (~useAsyncBroadcast /\ Answered(c) =>
                    /\ pc'[c] = "broadcast"
                    /\ c \in todo'[c]
                    /\ todo'[c] = {d \in Conns : RegisteredVoter(d)}
                    /\ cur'[c] = NoConn)
             /\ (pc[c] = "broadcast" =>
                    /\ clients' = clients /\ votes' = votes
                    /\ voteCounts' = voteCounts
                    /\ todo'[c] \subseteq todo[c]
                    /\ Cardinality(todo[c] \ todo'[c]) <= 1
                    /\ (cur'[c] # cur[c] /\ cur'[c] # NoConn =>
                           todo[c] \ todo'[c] = {cur'[c]})
                    /\ (pc'[c] # "broadcast" => UpdateTargets(c) = {})) ]_vars

\* A sync processVote has written to every sink of its loop but its own
\* voter's, and another voter is registered.
C35_Witness ==
    \E c \in Conns : \E d \in Conns \ {c} :
        /\ ~useAsyncBroadcast
        /\ pc[c] = "broadcast"
        /\ todo[c] = {c}
        /\ cur[c] = NoConn
        /\ RegisteredVoter(d)

\* u is t after one `s.voteCounts[option]++` of a configured option.
OneMore(t, u) == \E o \in Options : u = [t EXCEPT ![o] = @ + 1]

\* The snapshot sent just before the j-th of the channel: the one queued
\* ahead of it or, for the head, the one the worker received last (the
\* zero value of every count before it has received any).
Previous(j) == IF j = 1 THEN update ELSE broadcastChan[j - 1]

\* C36: the snapshots form a chain.  In async mode every queued snapshot is
\* the snapshot sent before it with exactly one option incremented by one,
\* the first one sent being the zero tally so incremented; hence the k-th
\* snapshot counts k votes.  The newest snapshot sent never counts more
\* than the tally does, and a snapshot that enters the channel is the one
\* before it plus one vote.
C36_SnapshotChain ==
    /\ [](useAsyncBroadcast =>
            /\ \A j \in 1..Len(broadcastChan) :
                 /\ OneMore(Previous(j), broadcastChan[j])
                 /\ Total(broadcastChan[j]) = Total(update) + j
            /\ Leq(Previous(Len(broadcastChan) + 1), voteCounts))
    /\ [][ Len(broadcastChan') > Len(broadcastChan) =>
             /\ Len(broadcastChan') = Len(broadcastChan) + 1
             /\ update' = update
             /\ OneMore(Previous(Len(broadcastChan) + 1),
                        broadcastChan'[Len(broadcastChan')]) ]_vars

\* Two snapshots are queued behind the zero tally: the first counts one vote
\* and the second the same vote and one for another option.
C36_Witness ==
    /\ Len(broadcastChan) = 2
    /\ Total(update) = 0
    /\ Total(broadcastChan[1]) = 1
    /\ Total(broadcastChan[2]) = 2
    /\ \E o \in Options : broadcastChan[1][o] = 1 /\ broadcastChan[2][o] = 1

\* C37: the shape of the tally.  The keys of the tally are exactly the
\* configured options and its counts are natural numbers, all 0 when the
\* server is made; no step makes a count smaller or changes it by more
\* than one, and a step in which a vote is rejected, for an unknown option
\* or for any other reason, leaves the tally, keys and counts, as it was.
C37_TallyShape ==
    /\ \A o \in Options : voteCounts[o] = 0
    /\ [](DOMAIN voteCounts = Options /\ \A o \in Options : voteCounts[o] \in Nat)
    /\ [][ /\ DOMAIN voteCounts' = DOMAIN voteCounts
           /\ \A o \in Options :
                /\ voteCounts'[o] >= voteCounts[o]
                /\ voteCounts'[o] <= voteCounts[o] + 1
           /\ \A c \in Conns :
                CallStep(c) /\ result'[c] \in Rejections
                   => voteCounts' = voteCounts ]_vars

\* A vote for an option that is not configured has been rejected after a
\* vote for a configured one was counted.
C37_Witness ==
    \E c \in Conns :
        /\ result[c] = ErrInvalid
        /\ Total(voteCounts) = 1
        /\ DOMAIN voteCounts = Options

\* Every goroutine that runs a loop of Writes over s.clients.
Writers == Conns \cup {Worker, Starter, Ender}

\* C38: no write after Unregister.  The sinks a loop of UPDATE Writes or of
\* announcement Writes is writing or has yet to write are all in the
\* registry, so a connection whose cleanup has completed is the sink of no
\* such Write; the step that takes a connection out of the registry is
\* taken while no loop has that connection, or any other, left to write.
C38_NoWriteAfterUnregister ==
    /\ [](\A g \in Writers : UpdateTargets(g) \subseteq Registered)
    /\ [](\A c \in Conns : pc[c] = "closed" =>
            \A g \in Writers : c \notin UpdateTargets(g))
    /\ [][ \A c \in Conns :
             c \in Registered /\ c \notin Registered' =>
                /\ pc'[c] = "closed"
                /\ \A g \in Writers :
                     UpdateTargets(g) = {} /\ c \notin UpdateTargets(g)' ]_vars

\* A voter has left and its cleanup is done; the worker is in its loop with
\* a sink still to write, and the leaver's identity has its VoteRecord.
C38_Witness ==
    \E c \in Conns :
        /\ pc[c] = "closed"
        /\ result[c] = Ok
        /\ clients[id[c]] = NoConn
        /\ votes[id[c]] # NoVote
        /\ wpc = "write"
        /\ UpdateTargets(Worker) # {}

====
